---- MODULE Spec2Model ----
(***************************************************************************)
(* Randomized response on a binary column, its denoising estimator and the *)
(* benchmark loop of algorithms/randomized_response_var_input_size.py.     *)
(*                                                                         *)
(* Numbers.  The script computes in numpy float64, and so does the model:  *)
(* a float64 is NaN, a signed infinity, or a finite value s * m * 2^e with *)
(* the significand m a natural of up to 53 bits, and +, -, *, / and < are  *)
(* those of IEEE-754 binary64: the exact result rounded to nearest, ties   *)
(* to even, with overflow to an infinity, gradual underflow, signed zeros  *)
(* and the rules of the special values (x/0, 0/0, inf/inf, inf - inf,      *)
(* comparisons with NaN).  np.exp is a table of its float64 values on the  *)
(* arguments of EpsDomain.  np.mean adds its items in the order numpy      *)
(* adds up to 128 of them.  The operators XAdd, XSub, XMul and XLt compute *)
(* on the same values without rounding: they are the real numbers the      *)
(* properties compare the float64 results with.                            *)
(*                                                                         *)
(* Not modelled: the wall-clock measurements (time.time, runtimes,         *)
(* mean_runtime), the report and the plots (lines 82-115), and the columns *)
(* of the CSV file other than HvyAlcoholConsump.                           *)
(***************************************************************************)
EXTENDS Integers, Sequences, FiniteSets

\* ------------------------------------------------------------------------
\* Bounds of the model
\* ------------------------------------------------------------------------

\* Longest short dataset (rows of features.csv) the model loads.
MaxN == 2

\* The long datasets have up to MaxOver rows more than the first fixed size.
MaxOver == 1

\* The long datasets repeat a pattern of PatternLen bits.
PatternLen == 2

\* Period of the streams of draws the generator may be seeded to produce.
StreamPeriod == 2

\* The largest number of rows the estimator is applied to on its own.
MaxTotal == 4

\* ------------------------------------------------------------------------
\* Naturals of any size
\* ------------------------------------------------------------------------
\* A float64 carries 53 significant bits and the integers of TLC 31: the
\* significands are little-endian sequences of limbs in 0..Base-1 whose last
\* limb is not 0; the number 0 is << >>.

LimbBits == 15

Base == 2 ^ LimbBits

RECURSIVE BNat(_)
BNat(i) == IF i = 0 THEN << >> ELSE <<i % Base>> \o BNat(i \div Base)

RECURSIVE BTrim(_)
BTrim(a) ==
    IF a = << >> THEN a
    ELSE IF a[Len(a)] = 0 THEN BTrim(SubSeq(a, 1, Len(a) - 1))
    ELSE a

BLimb(a, i) == IF i <= Len(a) THEN a[i] ELSE 0

RECURSIVE BCmpFrom(_, _, _)
BCmpFrom(a, b, i) ==
    IF i = 0 THEN 0
    ELSE IF a[i] < b[i] THEN -1
    ELSE IF a[i] > b[i] THEN 1
    ELSE BCmpFrom(a, b, i - 1)

\* -1, 0 or 1 as a < b, a = b or a > b.
BCmp(a, b) ==
    IF Len(a) < Len(b) THEN -1
    ELSE IF Len(a) > Len(b) THEN 1
    ELSE BCmpFrom(a, b, Len(a))

RECURSIVE BAddFrom(_, _, _, _)
BAddFrom(a, b, i, c) ==
    IF i > Len(a) /\ i > Len(b) THEN (IF c = 0 THEN << >> ELSE <<c>>)
    ELSE <<(BLimb(a, i) + BLimb(b, i) + c) % Base>>
         \o BAddFrom(a, b, i + 1, (BLimb(a, i) + BLimb(b, i) + c) \div Base)

BAdd(a, b) == BAddFrom(a, b, 1, 0)

RECURSIVE BSubFrom(_, _, _, _)
BSubFrom(a, b, i, c) ==
    IF i > Len(a) THEN << >>
    ELSE <<(a[i] - BLimb(b, i) - c + Base) % Base>>
         \o BSubFrom(a, b, i + 1, IF a[i] - BLimb(b, i) - c < 0 THEN 1 ELSE 0)

\* a - b, for a >= b.
BSub(a, b) == BTrim(BSubFrom(a, b, 1, 0))

RECURSIVE BScaleFrom(_, _, _, _)
BScaleFrom(a, k, i, c) ==
    IF i > Len(a) THEN (IF c = 0 THEN << >> ELSE <<c>>)
    ELSE <<(a[i] * k + c) % Base>>
         \o BScaleFrom(a, k, i + 1, (a[i] * k + c) \div Base)

\* a * k, for 0 <= k < Base.
BScale(a, k) == IF k = 0 THEN << >> ELSE BScaleFrom(a, k, 1, 0)

\* a * Base^n.
BShiftLimbs(a, n) == IF a = << >> THEN a ELSE [i \in 1..n |-> 0] \o a

RECURSIVE BMulFrom(_, _, _)
BMulFrom(a, b, i) ==
    IF i > Len(b) THEN << >>
    ELSE BAdd(BShiftLimbs(BScale(a, b[i]), i - 1), BMulFrom(a, b, i + 1))

BMul(a, b) == BMulFrom(a, b, 1)

\* a * 2^n.
BShl(a, n) == BShiftLimbs(BScale(a, 2 ^ (n % LimbBits)), n \div LimbBits)

\* floor(a / 2^n).
BShr(a, n) ==
    LET q == n \div LimbBits
        w == 2 ^ (n % LimbBits)
    IN  IF q >= Len(a) THEN << >>
        ELSE BTrim([i \in 1..(Len(a) - q) |->
                       (a[i + q] \div w) + (BLimb(a, i + q + 1) % w) * (Base \div w)])

\* Bit n of a (bit 0 is the lowest).
BBit(a, n) == (BLimb(a, n \div LimbBits + 1) \div 2 ^ (n % LimbBits)) % 2

\* Some bit of a below bit n is 1.
BAnyBelow(a, n) ==
    \E i \in 1..Len(a) :
       \/ i <= n \div LimbBits /\ a[i] # 0
       \/ i = n \div LimbBits + 1 /\ a[i] % 2 ^ (n % LimbBits) # 0

RECURSIVE IntBitLen(_)
IntBitLen(x) == IF x = 0 THEN 0 ELSE 1 + IntBitLen(x \div 2)

\* The number of bits of a.
BBitLen(a) ==
    IF a = << >> THEN 0 ELSE LimbBits * (Len(a) - 1) + IntBitLen(a[Len(a)])

RECURSIVE IntTrailingZeros(_)
IntTrailingZeros(x) == IF x % 2 = 1 THEN 0 ELSE 1 + IntTrailingZeros(x \div 2)

RECURSIVE BTrailingZerosFrom(_, _)
BTrailingZerosFrom(a, i) ==
    IF a[i] = 0 THEN LimbBits + BTrailingZerosFrom(a, i + 1)
    ELSE IntTrailingZeros(a[i])

\* The number of 0 bits below the lowest 1 bit of a, for a > 0.
BTrailingZeros(a) == BTrailingZerosFrom(a, 1)

\* The quotient limb of u / d and the remainder, for u < d * Base: q is a
\* guess not below the limb, p = d * q; the guess is lowered until p <= u.
RECURSIVE BDivFix(_, _, _, _)
BDivFix(u, d, q, p) ==
    IF BCmp(p, u) > 0 THEN BDivFix(u, d, q - 1, BSub(p, d))
    ELSE [q |-> q, r |-> BSub(u, p)]

\* The guess of the long division for the limb of u / d: the two limbs of u
\* above the top limb of d, divided by that limb, which is at least Base / 2
\* (the guess is then at most 2 above the limb).
BDivGuess(u, d, g) == BDivFix(u, d, IF g < Base THEN g ELSE Base - 1,
                              BScale(d, IF g < Base THEN g ELSE Base - 1))

\* One step of the long division by d of a remainder r < d: the limb
\* floor(r * Base / d) and the remainder left.
BDivStep(u, d) ==
    BDivGuess(u, d, (BLimb(u, Len(d) + 1) * Base + BLimb(u, Len(d)))
                       \div d[Len(d)])

\* The limb q put above the limbs of lo.
BDivAbove(lo, q) == [q |-> lo.q \o <<q>>, r |-> lo.r]

\* The next j limbs of the quotient of r / d, for r < d and d with a top
\* limb of at least Base / 2.
RECURSIVE BDivLimbs(_, _, _)
RECURSIVE BDivBelow(_, _, _)
BDivLimbs(r, d, j) ==
    IF j = 0 THEN [q |-> << >>, r |-> r]
    ELSE BDivBelow(BDivStep(BShiftLimbs(r, 1), d), d, j)

\* The limbs below the limb hi.q, which leaves the remainder hi.r.
BDivBelow(hi, d, j) == BDivAbove(BDivLimbs(hi.r, d, j - 1), hi.q)

\* ------------------------------------------------------------------------
\* float64
\* ------------------------------------------------------------------------
\* A float64 is NaN, an infinity of sign s, or the finite value
\* s * m * 2^e with s in {1, -1} and m odd (m = << >>, e = 0 for the zeros).

Precision == 53

\* 2^MaxExp is the first power of 2 that overflows.
MaxExp == 1024

\* 2^MinExp is the smallest positive float64 (a subnormal).
MinExp == 0 - 1074

NaN == [k |-> "nan", s |-> 1, m |-> << >>, e |-> 0]

Inf(s) == [k |-> "inf", s |-> s, m |-> << >>, e |-> 0]

Zero(s) == [k |-> "fin", s |-> s, m |-> << >>, e |-> 0]

IsFin(a) == a.k = "fin"

IsZero(a) == a.k = "fin" /\ a.m = << >>

\* s * m * 2^e for m with tz zero bits below its lowest 1 bit.
Normal(s, m, e, tz) == [k |-> "fin", s |-> s, m |-> BShr(m, tz), e |-> e + tz]

\* The real number s * m * 2^e, kept exactly (any number of bits).
Dyadic(s, m, e) ==
    IF m = << >> THEN Zero(s) ELSE Normal(s, m, e, BTrailingZeros(m))

\* The float64 n * 2^e for an int n of at most 31 bits.
Dy(n, e) == Dyadic(IF n < 0 THEN -1 ELSE 1, BNat(IF n < 0 THEN -n ELSE n), e)

\* An int (a Python int or a numpy int64) converted to float64.
FromInt(i) == Dy(i, 0)

FNeg(a) == [a EXCEPT !.s = -a.s]

\* abs() of a float64.
FAbs(a) == [a EXCEPT !.s = 1]

\* sa * ma * 2^e + sb * mb * 2^e for sa # sb, with c = BCmp(ma, mb); a sum
\* of opposite values is +0.0.
XAddOpposite(sa, ma, sb, mb, e, c) ==
    IF c = 0 THEN Zero(1)
    ELSE IF c > 0 THEN Dyadic(sa, BSub(ma, mb), e)
    ELSE Dyadic(sb, BSub(mb, ma), e)

\* sa * ma * 2^e + sb * mb * 2^e.
XAddAligned(sa, ma, sb, mb, e) ==
    IF sa = sb THEN Dyadic(sa, BAdd(ma, mb), e)
    ELSE XAddOpposite(sa, ma, sb, mb, e, BCmp(ma, mb))

\* The exact sum of two finite values other than 0, e the lower exponent.
XAddAt(a, b, e) ==
    XAddAligned(a.s, BShl(a.m, a.e - e), b.s, BShl(b.m, b.e - e), e)

\* The exact sum of two finite values.
XAdd(a, b) ==
    IF a.m = << >> /\ b.m = << >> THEN Zero(IF a.s = b.s THEN a.s ELSE 1)
    ELSE IF a.m = << >> THEN b
    ELSE IF b.m = << >> THEN a
    ELSE XAddAt(a, b, IF a.e < b.e THEN a.e ELSE b.e)

XSub(a, b) == XAdd(a, FNeg(b))

\* The exact product of two finite values.
XMul(a, b) == Dyadic(a.s * b.s, BMul(a.m, b.m), a.e + b.e)

\* The position of the highest bit of a finite value other than 0.
Top(a) == a.e + BBitLen(a.m)

\* |a| < |b| for finite values.
XLtAbs(a, b) ==
    IF b.m = << >> THEN FALSE
    ELSE IF a.m = << >> THEN TRUE
    ELSE IF Top(a) # Top(b) THEN Top(a) < Top(b)
    ELSE IF a.e < b.e THEN BCmp(a.m, BShl(b.m, b.e - a.e)) < 0
    ELSE BCmp(BShl(a.m, a.e - b.e), b.m) < 0

\* a < b for finite values (the two zeros are equal).
XLt(a, b) ==
    IF a.m = << >> /\ b.m = << >> THEN FALSE
    ELSE IF a.m = << >> THEN b.s = 1
    ELSE IF b.m = << >> THEN a.s = -1
    ELSE IF a.s # b.s THEN a.s = -1
    ELSE IF a.s = 1 THEN XLtAbs(a, b)
    ELSE XLtAbs(b, a)

\* A value beyond the largest float64 becomes an infinity.
Overflow(r) ==
    IF r.m # << >> /\ BBitLen(r.m) + r.e > MaxExp THEN Inf(r.s) ELSE r

\* a rounded at its bit sh > 0, q being the bits of a.m from bit sh on: up
\* when the bits below are more than half of bit sh, or half of it and q
\* is odd.
RoundUp(a, sh, q) ==
    Overflow(Dyadic(a.s,
                    IF /\ BBit(a.m, sh - 1) = 1
                       /\ (BAnyBelow(a.m, sh - 1) \/ BBit(q, 0) = 1)
                    THEN BAdd(q, <<1>>) ELSE q,
                    a.e + sh))

\* a, whose significand has len bits, rounded at its bit sh.
RoundShift(a, len, sh) ==
    IF sh <= 0 THEN Overflow(a) ELSE RoundUp(a, sh, BShr(a.m, sh))

\* The float64 nearest to a finite value (ties to the even significand):
\* Precision bits are kept, fewer below the smallest normal float64, where
\* the last bit kept is 2^MinExp.
Round(a) ==
    IF a.m = << >> THEN a
    ELSE RoundShift(a, BBitLen(a.m),
                    IF BBitLen(a.m) - Precision > MinExp - a.e
                    THEN BBitLen(a.m) - Precision ELSE MinExp - a.e)

\* In a sum with a, a value b more than 60 binary places smaller than a
\* acts on the rounding by its sign alone: Low(a, b) has the sign of b and
\* lies 60 places below a.
Low(a, b) ==
    IF a.m # << >> /\ b.m # << >> /\ Top(a) - Top(b) > 60
    THEN [k |-> "fin", s |-> b.s, m |-> <<1>>, e |-> Top(a) - 61]
    ELSE b

\* float64 a + b.
FAdd(a, b) ==
    IF a.k = "nan" \/ b.k = "nan" THEN NaN
    ELSE IF a.k = "inf" /\ b.k = "inf" THEN (IF a.s = b.s THEN a ELSE NaN)
    ELSE IF a.k = "inf" THEN a
    ELSE IF b.k = "inf" THEN b
    ELSE Round(XAdd(Low(b, a), Low(a, b)))

\* float64 a - b.
FSub(a, b) == FAdd(a, FNeg(b))

\* float64 a * b.
FMul(a, b) ==
    IF a.k = "nan" \/ b.k = "nan" THEN NaN
    ELSE IF a.k = "inf" \/ b.k = "inf"
         THEN (IF IsZero(a) \/ IsZero(b) THEN NaN ELSE Inf(a.s * b.s))
    ELSE Round(XMul(a, b))

\* The float64 nearest to s * (q0 + f.q / 2^60 + rest) * 2^e, where rest is
\* not 0 just when f.r is not: rest is kept as one more bit, which is all
\* that the rounding needs.
DivPack(s, e, q0, f) ==
    Round(Dyadic(s,
                 BAdd(BShl(BTrim(f.q \o <<q0>>), 1),
                      IF f.r = << >> THEN << >> ELSE <<1>>),
                 e - 4 * LimbBits - 1))

\* s * (n / d) * 2^e for n and d of the same length, q0 the bit of the
\* quotient before the point; 60 more bits are computed.
DivFrom(s, n, d, e, q0) ==
    DivPack(s, e, q0, BDivLimbs(IF q0 = 1 THEN BSub(n, d) ELSE n, d, 4))

\* s * (n / d) * 2^e for n and d of the same number of bits.
DivSame(s, n, d, e) == DivFrom(s, n, d, e, IF BCmp(n, d) >= 0 THEN 1 ELSE 0)

\* The float64 quotient of two finite values other than 0, whose
\* significands have la and lb bits: both are brought to len bits.
DivAligned(a, b, la, lb, len) ==
    DivSame(a.s * b.s, BShl(a.m, len - la), BShl(b.m, len - lb),
            a.e - b.e + la - lb)

\* The number of bits of the limbs that hold n bits.
LimbsBits(n) == ((n + LimbBits - 1) \div LimbBits) * LimbBits

DivBits(a, b, la, lb) ==
    DivAligned(a, b, la, lb, LimbsBits(IF la >= lb THEN la ELSE lb))

DivFin(a, b) == DivBits(a, b, BBitLen(a.m), BBitLen(b.m))

\* float64 a / b for numpy scalars: a division by zero raises nothing, it
\* gives inf, -inf or NaN (with a RuntimeWarning).
FDiv(a, b) ==
    IF a.k = "nan" \/ b.k = "nan" THEN NaN
    ELSE IF a.k = "inf" /\ b.k = "inf" THEN NaN
    ELSE IF a.k = "inf" THEN Inf(a.s * b.s)
    ELSE IF b.k = "inf" THEN Zero(a.s * b.s)
    ELSE IF IsZero(b) THEN (IF IsZero(a) THEN NaN ELSE Inf(a.s * b.s))
    ELSE IF IsZero(a) THEN Zero(a.s * b.s)
    ELSE DivFin(a, b)

\* float64 a < b: False as soon as one side is NaN.
FLt(a, b) ==
    IF a.k = "nan" \/ b.k = "nan" THEN FALSE
    ELSE IF a.k = "inf" THEN a.s = -1 /\ ~(b.k = "inf" /\ b.s = -1)
    ELSE IF b.k = "inf" THEN b.s = 1
    ELSE XLt(a, b)

\* float64 a == b: False as soon as one side is NaN; 0.0 == -0.0.
FEq(a, b) ==
    /\ a.k # "nan"
    /\ b.k # "nan"
    /\ a = b \/ (IsZero(a) /\ IsZero(b))

One == FromInt(1)

Half == Dy(1, -1)

\* ------------------------------------------------------------------------
\* np.exp, the random draws, the privacy parameter
\* ------------------------------------------------------------------------

\* A privacy parameter is written as a decimal literal: Eps(m, e) is the
\* float64 nearest to m * 10^e.
Eps(m, e) == [m |-> m, e |-> e]

\* The epsilon of the benchmark's calls (line 63) and the default of both
\* functions (lines 7 and 26): 1.0.
EpsOne == Eps(1, 0)

\* The sample arguments: -1.0, 0.0, 1e-17, 0.5, 1.0, 2.0, 44.0, 710.0.
EpsDomain ==
    {Eps(-1, 0), Eps(0, 0), Eps(1, -17), Eps(5, -1), EpsOne, Eps(2, 0),
     Eps(44, 0), Eps(710, 0)}

\* epsilon > 0 and epsilon = 0, on the literals.
EpsPositive(epsilon) == epsilon.m > 0

EpsZero(epsilon) == epsilon.m = 0

\* The finite float64 m * 2^e other than 0, m odd and given by its limbs.
Float(m, e) == [k |-> "fin", s |-> 1, m |-> m, e |-> e]

\* np.exp(x) in float64, for x in EpsDomain.
\*   x = 0: exactly 1.0.
\*   0 < |x| <= 5e-17: |x| is below 2^-54, half the gap between 1.0 and its
\*     neighbours, so the result rounds to exactly 1.0.
\*   x >= 710: e^x exceeds the largest float64 (about e^709.78): the result
\*     is inf (numpy warns and raises nothing).
\*   otherwise: the float64 nearest to e^x,
\*     np.exp(0.5)  = 0x1.a61298e1e069cp+0  = 1.6487212707001282
\*     np.exp(1.0)  = 0x1.5bf0a8b145769p+1  = 2.718281828459045
\*     np.exp(2.0)  = 0x1.d8e64b8d4ddaep+2  = 7.38905609893065
\*     np.exp(-1.0) = 0x1.78b56362cef38p-2  = 0.36787944117144233
\*     np.exp(44.0) = 0x1.64b41c6d37832p+63 = 1.2851600114359308e+19
np_exp(x) ==
    IF x.m = 0 THEN One
    ELSE IF x.e <= -17 /\ x.m <= 5 /\ x.m >= -5 THEN One
    ELSE IF x.e >= 0 /\ x.m * 10 ^ x.e >= 710 THEN Inf(1)
    ELSE CASE x = Eps(5, -1) -> Float(<<423, 18191, 24873, 52>>, -50)
           [] x = Eps(1, 0)  -> Float(<<22377, 5672, 31786, 173>>, -51)
           [] x = Eps(2, 0)  -> Float(<<28375, 14548, 7369, 118>>, -49)
           [] x = Eps(-1, 0) -> Float(<<7655, 3467, 17835, 23>>, -51)
           [] x = Eps(44, 0) -> Float(<<15385, 18131, 5763, 89>>, 12)

\* Values np.random.rand() may return: uniform draws in [0, 1).
\* 0.0, 0.75 and 1023/1024.
Draws == {FromInt(0), Dy(3, -2), Dy(1023, -10)}

\* numpy's global generator is never seeded by the script: the operating
\* system seeds it, and the seed fixes the whole stream of draws of the run.
\* The streams of the model are those of period StreamPeriod over two draws,
\* one below and one above the p of epsilon = 1.0, the only epsilon of the
\* script (line 63).
StreamDraws == {FromInt(0), Dy(3, -2)}

Streams == [1..StreamPeriod -> StreamDraws]

\* np.random.rand(): the draw at position pos (from 0) of a stream.
np_random_rand(strm, pos) == strm[(pos % Len(strm)) + 1]

\* ------------------------------------------------------------------------
\* randomized_response (lines 7-21)
\* ------------------------------------------------------------------------

\* Line 17: p = np.exp(epsilon) / (1 + np.exp(epsilon)), for each epsilon
\* of EpsDomain.
rr_p_values ==
    [epsilon \in EpsDomain |-> FDiv(np_exp(epsilon), FAdd(One, np_exp(epsilon)))]

\* Line 17: the p of a call with this epsilon.
rr_p(epsilon) == rr_p_values[epsilon]

\* Lines 17-21, with u the value np.random.rand() returns in this call.  No
\* argument is checked and nothing is raised: the result is value or
\* 1 - value whatever value and epsilon are.
randomized_response(value, epsilon, u) ==
    LET p == rr_p(epsilon)
    IN  IF FLt(u, p) THEN value ELSE 1 - value

\* ------------------------------------------------------------------------
\* analyze_data (lines 26-38)
\* ------------------------------------------------------------------------

\* A DataFrame: the column HvyAlcoholConsump and, once analyze_data has run
\* on it, the column HvyAlcoholConsump_noised.
Frame(col) ==
    [columns |-> {"HvyAlcoholConsump"},
     HvyAlcoholConsump |-> col,
     HvyAlcoholConsump_noised |-> << >>]

\* len(frame).
rows(frame) == Len(frame.HvyAlcoholConsump)

\* The sum of the ints s[lo..hi].
RECURSIVE SumRange(_, _, _)
SumRange(s, lo, hi) ==
    IF lo > hi THEN 0
    ELSE IF lo = hi THEN s[lo]
    ELSE SumRange(s, lo, (lo + hi) \div 2) + SumRange(s, (lo + hi) \div 2 + 1, hi)

\* Series.sum() of a column of ints.
SeriesSum(s) == SumRange(s, 1, Len(s))

\* Line 28: Series.apply calls randomized_response once per row, in row
\* order; us[i] is the draw of the i-th call.
apply_randomized_response(col, epsilon, us) ==
    [i \in 1..Len(col) |-> randomized_response(col[i], epsilon, us[i])]

\* A wrong retention probability, 1 / (1 + e^eps), which is the probability of
\* a flip: the estimator of C4 would then invert the wrong mechanism.
ad_p_of_flip(epsilon) == FDiv(One, FAdd(One, np_exp(epsilon)))

\* Line 34: p = np.exp(epsilon) / (1 + np.exp(epsilon)), for each epsilon
\* of EpsDomain.
ad_p_values ==
    [epsilon \in EpsDomain |-> FDiv(np_exp(epsilon), FAdd(One, np_exp(epsilon)))]

\* Line 34: the p of a call with this epsilon.
ad_p(epsilon) == ad_p_values[epsilon]

\* A wrong estimator that leaves out the offset (1 - p) of line 35.
denoise_without_offset(noised_count, total_count, epsilon) ==
    LET p == ad_p(epsilon)
        denoised_proportion ==
            FDiv(FDiv(noised_count, FromInt(total_count)),
                 FSub(FMul(FromInt(2), p), One))
    IN  FMul(denoised_proportion, FromInt(total_count))

\* An estimator that clamps its result to [0, total_count], which the code
\* does not do.
denoise_clamped(noised_count, total_count, epsilon) ==
    LET p == ad_p(epsilon)
        denoised_proportion ==
            FDiv(FSub(FDiv(noised_count, FromInt(total_count)), FSub(One, p)),
                 FSub(FMul(FromInt(2), p), One))
        raw == FMul(denoised_proportion, FromInt(total_count))
    IN  IF FLt(raw, FromInt(0)) THEN FromInt(0)
        ELSE IF FLt(FromInt(total_count), raw) THEN FromInt(total_count)
        ELSE raw

\* Lines 33-36: the denoising of a noised count over total_count rows.
denoise(noised_count, total_count, epsilon) ==
    LET p == ad_p(epsilon)
        denoised_proportion ==
            FDiv(FSub(FDiv(noised_count, FromInt(total_count)), FSub(One, p)),
                 FSub(FMul(FromInt(2), p), One))
    IN  FMul(denoised_proportion, FromInt(total_count))

\* Lines 33-38, with the counts of lines 27 and 30 and the column of
\* line 28.
analyze_data_return(data, epsilon, noised, original_count, noised_count) ==
    [original_count |-> original_count,
     noised_count   |-> noised_count,
     denoised_count |-> denoise(FromInt(noised_count), rows(data), epsilon),
     draws          |-> Len(noised),
     data           |-> [data EXCEPT
                            !.columns = @ \cup {"HvyAlcoholConsump_noised"},
                            !.HvyAlcoholConsump_noised = noised]]

\* Lines 27 and 30-38, with the column of line 28.
analyze_data_noised(data, epsilon, noised) ==
    analyze_data_return(data, epsilon, noised,
                        SeriesSum(data.HvyAlcoholConsump), SeriesSum(noised))

\* Lines 26-38.  The frame passed in is changed in place (line 28 adds the
\* noised column): "data" is the frame after the call, "draws" the number
\* of calls of np.random.rand() made.
analyze_data(data, epsilon, us) ==
    analyze_data_noised(
        data, epsilon,
        apply_randomized_response(data.HvyAlcoholConsump, epsilon, us))

\* ------------------------------------------------------------------------
\* The benchmark script (lines 41-80)
\* ------------------------------------------------------------------------

VARIABLES
    features_csv,     \* lines 42-43: column HvyAlcoholConsump of features.csv
    data,             \* line 43: the frame read from the file
    input_sizes,      \* line 46
    results,          \* line 47
    idx,              \* position of the loop of line 49 in input_sizes
    size,             \* loop variable of line 49 (0 before the first turn)
    trial,            \* turns of the loop of line 58 done for this size
    original_counts,  \* line 53
    noised_counts,    \* line 54
    denoised_counts,  \* line 55
    subset_data,      \* line 59: the copy the last trial worked on
    stream,           \* the stream of numpy's global generator in this run
    rng,              \* draws taken from the generator so far
    pc,               \* "for_size", "for_trial" or "done"
    last              \* harness: the last call of a function, with its result

vars ==
    <<features_csv, data, input_sizes, results, idx, size, trial, original_counts,
      noised_counts, denoised_counts, subset_data, stream, rng, pc, last>>

\* Line 58: range(10).
TrialsPerSize == 10

\* The binary columns of at most MaxN rows (at least one row).
Columns == UNION {[1..n -> {0, 1}] : n \in 1..MaxN}

\* Line 46: the six fixed sizes; len(data) follows them in input_sizes.
FixedSizes == <<1000, 10000, 30000, 50000, 100000, 150000>>

\* The column of n rows that repeats the pattern b.
Repeat(b, n) == [i \in 1..n |-> b[((i - 1) % Len(b)) + 1]]

\* The files of the model: the short ones, smaller than every fixed size,
\* and long ones of FixedSizes[1] to FixedSizes[1] + MaxOver rows, which
\* repeat a pattern of PatternLen bits.
Files ==
    Columns \cup {Repeat(b, FixedSizes[1] + k) :
                     b \in [1..PatternLen -> {0, 1}], k \in 0..MaxOver}

\* A wrong subset: the last n rows instead of the first n.
tail_copy(frame, n) ==
    [frame EXCEPT
        !.HvyAlcoholConsump =
            SubSeq(@, IF n < Len(@) THEN Len(@) - n + 1 ELSE 1, Len(@)),
        !.HvyAlcoholConsump_noised =
            SubSeq(@, IF n < Len(@) THEN Len(@) - n + 1 ELSE 1, Len(@))]

\* data.head(size).copy(): a new frame holding the first size rows.
head_copy(frame, n) ==
    [frame EXCEPT
        !.HvyAlcoholConsump = SubSeq(@, 1, IF n < Len(@) THEN n ELSE Len(@)),
        !.HvyAlcoholConsump_noised =
            SubSeq(@, 1, IF n < Len(@) THEN n ELSE Len(@))]

\* res += s[i] for i = lo..hi, in this order.
RECURSIVE AddRange(_, _, _, _)
AddRange(res, s, lo, hi) ==
    IF lo > hi THEN res ELSE AddRange(FAdd(res, s[lo]), s, lo + 1, hi)

\* r[j] += s[i + j] for i = 8, 16, ... below hi: the j-th of the eight partial
\* sums numpy keeps.
RECURSIVE Lane(_, _, _, _)
Lane(r, s, i, hi) ==
    IF i > hi THEN r ELSE Lane(FAdd(r, s[i]), s, i + 8, hi)

\* The sum np.add.reduce computes for a float64 array of at most 128 items
\* (np.mean sums with it): below 8 items one running sum from 0.0; from 8
\* items on, eight partial sums over the items of the full blocks of 8,
\* added up pairwise, then the items left over one by one.
add_reduce(s) ==
    LET n    == Len(s)
        full == n - (n % 8)
        r(j) == Lane(s[j], s, j + 8, full)
    IN  IF n < 8 THEN AddRange(FromInt(0), s, 1, n)
        ELSE AddRange(FAdd(FAdd(FAdd(r(1), r(2)), FAdd(r(3), r(4))),
                           FAdd(FAdd(r(5), r(6)), FAdd(r(7), r(8)))),
                      s, full + 1, n)

\* A wrong mean, which divides the sum by one less than the length.
np_mean_short(s) == FDiv(add_reduce(s), FromInt(Len(s) - 1))

\* np.mean of a list of float64.
np_mean(s) == FDiv(add_reduce(s), FromInt(Len(s)))

\* np.mean of a list of numpy int64.
np_mean_int(s) == FDiv(FromInt(SeriesSum(s)), FromInt(Len(s)))

\* Lines 78-80: the relative error, and the tuple appended to results
\* (without mean_runtime).
summary_tuple(sz, mean_original_count, mean_noised_count, mean_denoised_count) ==
    [size                |-> sz,
     mean_original_count |-> mean_original_count,
     mean_noised_count   |-> mean_noised_count,
     mean_denoised_count |-> mean_denoised_count,
     relative_error      |->
         FDiv(FAbs(FSub(mean_denoised_count, mean_original_count)), FromInt(sz))]

\* Lines 71-80: the means of the three lists and the tuple made of them.
summary(sz, originals, noiseds, denoiseds) ==
    summary_tuple(sz, np_mean_int(originals), np_mean_int(noiseds),
                  np_mean(denoiseds))

\* The harness's record of no call.
NoCall ==
    [fn |-> "none", value |-> 0, epsilon |-> EpsOne, u |-> FromInt(0),
     data |-> Frame(<< >>), total |-> 0, true_count |-> 0,
     noised_input |-> FromInt(0), outcome |-> "none", error |-> "none",
     ret |-> 0, original_count |-> 0, noised_count |-> 0,
     denoised_count |-> FromInt(0), frame |-> Frame(<< >>), draws |-> 0,
     again |-> FALSE, prev_original_count |-> 0, prev_noised_count |-> 0,
     prev_denoised_count |-> FromInt(0)]

\* Line 43: pd.read_csv, as far as the column HvyAlcoholConsump goes.
read_csv(column) == Frame(column)

Init ==
    /\ features_csv \in Files
    /\ data = read_csv(features_csv)
    /\ input_sizes = FixedSizes \o <<rows(data)>>
    /\ results = << >>
    /\ idx = 1
    /\ size = 0
    /\ trial = 0
    /\ original_counts = << >>
    /\ noised_counts = << >>
    /\ denoised_counts = << >>
    /\ subset_data = Frame(<< >>)
    /\ stream \in Streams
    /\ rng = 0
    /\ pc = "for_size"
    /\ last = NoCall

\* A wrong test, which also skips the size equal to the dataset's.
exceeds_or_equals(sz, frame) == sz >= rows(frame)

\* Line 50: size > len(data).
exceeds(sz, frame) == sz > rows(frame)

\* Lines 49-51: the next size is larger than the dataset: continue.
SkipSize ==
    /\ pc = "for_size"
    /\ idx <= Len(input_sizes)
    /\ exceeds(input_sizes[idx], data)
    /\ size' = input_sizes[idx]
    /\ idx' = idx + 1
    /\ UNCHANGED <<features_csv, data, input_sizes, results, trial, original_counts,
                   noised_counts, denoised_counts, subset_data, stream, rng,
                   pc, last>>

\* Lines 49-56: the next size fits: empty the four lists, enter the trials.
BeginSize ==
    /\ pc = "for_size"
    /\ idx <= Len(input_sizes)
    /\ ~exceeds(input_sizes[idx], data)
    /\ size' = input_sizes[idx]
    /\ original_counts' = << >>
    /\ noised_counts' = << >>
    /\ denoised_counts' = << >>
    /\ trial' = 0
    /\ pc' = "for_trial"
    /\ UNCHANGED <<features_csv, data, input_sizes, results, idx, subset_data, stream, rng,
                   last>>

\* The draws of the next n calls of np.random.rand().
next_draws(strm, pos, n) == [i \in 1..n |-> np_random_rand(strm, pos + i - 1)]

\* Lines 58-69: one trial.
Trial ==
    /\ pc = "for_trial"
    /\ trial < TrialsPerSize
    /\ \E copy \in {head_copy(data, size)} :
       \E r \in {analyze_data(copy, EpsOne, next_draws(stream, rng, rows(copy)))} :
          /\ subset_data' = r.data
          /\ original_counts' = Append(original_counts, r.original_count)
          /\ noised_counts' = Append(noised_counts, r.noised_count)
          /\ denoised_counts' = Append(denoised_counts, r.denoised_count)
          /\ rng' = rng + r.draws
    /\ trial' = trial + 1
    /\ UNCHANGED <<features_csv, data, input_sizes, results, idx, size, stream, pc, last>>

\* Lines 71-80: after the last trial, the means, the relative error and the
\* append to results; then the next turn of the loop of line 49.
Summarize ==
    /\ pc = "for_trial"
    /\ trial = TrialsPerSize
    /\ results' = Append(results,
                         summary(size, original_counts, noised_counts,
                                 denoised_counts))
    /\ idx' = idx + 1
    /\ pc' = "for_size"
    /\ UNCHANGED <<features_csv, data, input_sizes, size, trial, original_counts,
                   noised_counts, denoised_counts, subset_data, stream, rng,
                   last>>

\* Line 49: input_sizes is exhausted; the loop ends.
Finish ==
    /\ pc = "for_size"
    /\ idx > Len(input_sizes)
    /\ pc' = "done"
    /\ UNCHANGED <<features_csv, data, input_sizes, results, idx, size, trial,
                   original_counts, noised_counts, denoised_counts,
                   subset_data, stream, rng, last>>

Next == SkipSize \/ BeginSize \/ Trial \/ Summarize \/ Finish

Spec == Init /\ [][Next]_vars

\* ------------------------------------------------------------------------
\* Harness: single calls of the two functions with arbitrary arguments
\* ------------------------------------------------------------------------

\* Arguments passed as "value": the two bits and two values outside {0, 1}.
ValueDomain == {-1, 0, 1, 2}

\* The state of the script before it starts.
Idle ==
    /\ features_csv = << >>
    /\ data = Frame(<< >>)
    /\ input_sizes = << >>
    /\ results = << >>
    /\ idx = 1
    /\ size = 0
    /\ trial = 0
    /\ original_counts = << >>
    /\ noised_counts = << >>
    /\ denoised_counts = << >>
    /\ subset_data = Frame(<< >>)
    /\ stream = [i \in 1..StreamPeriod |-> FromInt(0)]
    /\ rng = 0
    /\ pc = "for_size"

IdleUnchanged ==
    UNCHANGED <<features_csv, data, input_sizes, results, idx, size, trial, original_counts,
                noised_counts, denoised_counts, subset_data, stream, rng, pc>>

InitCall == Idle /\ last = NoCall

\* randomized_response(value, epsilon) with the draw u.  The function has no
\* raise statement: every call returns.
CallRandomizedResponse ==
    /\ last.fn = "none"
    /\ \E value \in ValueDomain, epsilon \in EpsDomain, u \in Draws :
          last' = [NoCall EXCEPT
                      !.fn = "randomized_response",
                      !.value = value,
                      !.epsilon = epsilon,
                      !.u = u,
                      !.outcome = "returned",
                      !.ret = randomized_response(value, epsilon, u)]
    /\ IdleUnchanged

\* The harness's record of analyze_data(Frame(col), epsilon) with the draws
\* us.  The function has no raise statement and numpy's float64 division
\* raises nothing: every call returns its three counts.
analyze_data_record(col, epsilon, r) ==
    [NoCall EXCEPT
        !.fn = "analyze_data",
        !.data = Frame(col),
        !.epsilon = epsilon,
        !.total = Len(col),
        !.outcome = "returned",
        !.original_count = r.original_count,
        !.noised_count = r.noised_count,
        !.denoised_count = r.denoised_count,
        !.frame = r.data,
        !.draws = r.draws]

\* The record of the call analyze_data(Frame(col), epsilon) with the draws us.
analyze_data_call(col, epsilon, us) ==
    analyze_data_record(col, epsilon, analyze_data(Frame(col), epsilon, us))

\* A call of analyze_data.
CallAnalyzeData ==
    /\ last.fn = "none"
    /\ \E col \in Columns, epsilon \in EpsDomain :
       \E us \in [1..Len(col) -> Draws] :
          last' = analyze_data_call(col, epsilon, us)
    /\ IdleUnchanged

\* A second call of analyze_data, with the same epsilon, on another frame of
\* as many rows; the record keeps the counts of the first call.
CallAnalyzeDataAgain ==
    /\ last.fn = "analyze_data"
    /\ ~last.again
    /\ \E col \in Columns :
       \E us \in [1..Len(col) -> Draws] :
          /\ Len(col) = last.total
          /\ last' = [analyze_data_call(col, last.epsilon, us) EXCEPT
                          !.again = TRUE,
                          !.prev_original_count = last.original_count,
                          !.prev_noised_count = last.noised_count,
                          !.prev_denoised_count = last.denoised_count]
    /\ IdleUnchanged

\* The expected noised count of n rows of which t are 1, under the
\* retention probability p: t*p + (n - t)*(1 - p).
expected_noised_count(t, n, p) ==
    FAdd(FMul(FromInt(t), p), FMul(FromInt(n - t), FSub(One, p)))

\* Lines 33-36 applied to the expected noised count of t ones among n rows
\* under the retention probability of line 17.  analyze_data itself is only
\* ever given the int of line 30; the expectation is a float64 that is no
\* count of any one run, and the four operations of lines 35-36 are applied
\* to it as they stand.
CallDenoise ==
    /\ last.fn = "none"
    /\ \E n \in 1..MaxTotal, epsilon \in EpsDomain :
       \E t \in 0..n :
       \E c \in {expected_noised_count(t, n, rr_p(epsilon))} :
          last' = [NoCall EXCEPT
                      !.fn = "denoise",
                      !.epsilon = epsilon,
                      !.total = n,
                      !.true_count = t,
                      !.noised_input = c,
                      !.outcome = "returned",
                      !.denoised_count = denoise(c, n, epsilon)]
    /\ IdleUnchanged

NextCall ==
    CallRandomizedResponse \/ CallAnalyzeData \/ CallAnalyzeDataAgain \/ CallDenoise

CallSpec == InitCall /\ [][NextCall]_vars

\* ------------------------------------------------------------------------
\* Properties
\* ------------------------------------------------------------------------

\* A size that the dataset can serve.
Fits(sz) == sz <= Len(features_csv)

\* The sizes of the summaries, in the order of results.
ResultSizes == [j \in 1..Len(results) |-> results[j].size]

\* The number of ones among the first sz observations of the file.
PrefixOnes(sz) == Cardinality({i \in 1..sz : features_csv[i] = 1})

\* The sum of the first k items of a list of ints.
RECURSIVE IntTotal(_, _)
IntTotal(s, k) == IF k = 0 THEN 0 ELSE s[k] + IntTotal(s, k - 1)

\* The exact sum (a real number, not rounded) of the first k items of a list
\* of finite float64.
RECURSIVE XTotal(_, _)
XTotal(s, k) == IF k = 0 THEN FromInt(0) ELSE XAdd(XTotal(s, k - 1), s[k])

\* |a - b| <= tol, for real numbers.
Within(a, b, tol) == ~XLt(tol, FAbs(XSub(a, b)))

\* 2p - 1, the real number.
TwoPMinusOne(p) == XSub(XAdd(p, p), One)

\* c - n*(1 - p), the real number: (2p - 1) times the value of the
\* estimator's formula ((c/n - (1 - p)) / (2p - 1)) * n.
Numerator(c, n, p) == XSub(c, XMul(FromInt(n), XSub(One, p)))

\* est is the value of the estimator's formula on the noised count c of n
\* rows, up to the rounding of the four float64 operations of the formula:
\* |est * (2p - 1) - (c - n*(1 - p))| <= n * 2^-49.
IsEstimate(est, c, n, p) ==
    /\ IsFin(est)
    /\ Within(XMul(est, TwoPMinusOne(p)), Numerator(c, n, p), Dy(n, -49))

\* The size of the trials whose counts the three lists hold: the loop
\* variable during the trials, the size of the last summary after them.
ListsSize == IF pc = "for_trial" THEN size ELSE results[Len(results)].size

\* The lists hold trials: during a size's trials, or after a summary.
ListsHeld == pc = "for_trial" \/ results # << >>

\* C1: every call randomized_response(v, eps) with v outside {0, 1} or with
\* eps <= 0 fails with an InvalidParameter error and returns no value.
C1_BadParametersRejected ==
    (/\ last.fn = "randomized_response"
     /\ (last.value \notin {0, 1} \/ ~EpsPositive(last.epsilon)))
    => (last.outcome = "raised" /\ last.error = "InvalidParameter")

\* C2: when the denoising step is reached with a retention probability of
\* exactly 1/2, the call fails with DegenerateMechanism (or InvalidParameter)
\* and returns no estimated count, be it finite, inf or NaN.
C2_DegenerateMechanismRejected ==
    (/\ last.fn = "analyze_data"
     /\ ad_p(last.epsilon) = Half)
    => (/\ last.outcome = "raised"
        /\ last.error \in {"DegenerateMechanism", "InvalidParameter"})

\* C3: for n >= 1 rows, a noised count c in 0..n and p other than 1/2, the
\* estimate returned is the value of ((c/n - (1 - p)) / (2p - 1)) * n, as
\* float64 computes it: estimate * (2p - 1) is c - n*(1 - p) up to
\* n * 2^-49; and two calls on frames of the same length with the same
\* epsilon and the same noised count return the same estimate, whatever
\* their true counts.
C3_EstimateIsFormulaOfNoisedCount ==
    (/\ last.fn = "analyze_data"
     /\ IsFin(ad_p(last.epsilon))
     /\ ad_p(last.epsilon) # Half)
    => /\ last.noised_count \in 0..last.total
       /\ IsEstimate(last.denoised_count, FromInt(last.noised_count),
                     last.total, ad_p(last.epsilon))
       /\ (last.again /\ last.prev_noised_count = last.noised_count)
            => last.denoised_count = last.prev_denoised_count

\* C3 happens: a second call on a frame with another true count gave the
\* same noised count, under a finite p other than 1/2.
C3_Witness ==
    /\ last.fn = "analyze_data"
    /\ last.again
    /\ last.prev_original_count # last.original_count
    /\ last.prev_noised_count = last.noised_count
    /\ last.total >= 2
    /\ IsFin(ad_p(last.epsilon))
    /\ ad_p(last.epsilon) # Half

\* C4, as the spec states it: for n >= 1, t in 0..n and 1/2 < p <= 1, the
\* estimator applied to the expected noised count t*p + (n - t)*(1 - p) of
\* the mechanism returns exactly t.
C4_EstimatorInvertsExpectation ==
    (/\ last.fn = "denoise"
     /\ IsFin(rr_p(last.epsilon))
     /\ FLt(Half, rr_p(last.epsilon))
     /\ ~FLt(One, rr_p(last.epsilon)))
    => FEq(last.denoised_count, FromInt(last.true_count))

\* C4, amended: for n >= 1, t in 0..n and 1/2 < p <= 1, the estimator
\* applied to the expected noised count t*p + (n - t)*(1 - p) of the
\* mechanism returns t up to the rounding of float64:
\* |estimate - t| * (2p - 1) <= n * 2^-49.
C4_EstimatorInvertsUpToRounding ==
    (/\ last.fn = "denoise"
     /\ IsFin(rr_p(last.epsilon))
     /\ FLt(Half, rr_p(last.epsilon))
     /\ ~FLt(One, rr_p(last.epsilon)))
    => /\ IsFin(last.denoised_count)
       /\ Within(XMul(XSub(last.denoised_count, FromInt(last.true_count)),
                      TwoPMinusOne(rr_p(last.epsilon))),
                 FromInt(0), Dy(last.total, -49))

\* C4 happens: the estimator ran on the expected noised count of a mixed
\* dataset (0 < t < n) under 1/2 < p < 1 and returned a float64 next to t,
\* not t.
C4_Witness ==
    /\ last.fn = "denoise"
    /\ FLt(Half, rr_p(last.epsilon))
    /\ FLt(rr_p(last.epsilon), One)
    /\ 0 < last.true_count
    /\ last.true_count < last.total
    /\ IsFin(last.denoised_count)
    /\ ~FEq(last.denoised_count, FromInt(last.true_count))
    /\ Within(last.denoised_count, FromInt(last.true_count), Dy(1, -40))

\* C5: a requested size larger than the dataset is no error: the step taken
\* at such a size adds no summary and moves the loop on to the next requested
\* size; and results holds exactly one summary for each requested size that
\* fits, in the order requested, and none for a size that does not.
C5_OversizedSkippedOnly ==
    /\ [](/\ ResultSizes = SelectSeq(SubSeq(input_sizes, 1, idx - 1), Fits)
          /\ pc = "done" => idx = Len(input_sizes) + 1)
    /\ [][(/\ pc = "for_size"
           /\ idx <= Len(input_sizes)
           /\ ~Fits(input_sizes[idx]))
          => (/\ results' = results
              /\ idx' = idx + 1
              /\ pc' = "for_size")]_vars

\* C5 happens: the run ended with a summary for its first size and one for
\* its last size, after it skipped the sizes requested between them.
C5_Witness ==
    /\ pc = "done"
    /\ Fits(input_sizes[1])
    /\ ~Fits(input_sizes[2])
    /\ ~Fits(input_sizes[Len(input_sizes) - 1])
    /\ ResultSizes = <<input_sizes[1], input_sizes[Len(input_sizes)]>>

\* C6: for v in {0, 1} and eps > 0 a call of the mechanism returns v or
\* 1 - v, a value of {0, 1}, decided by (v, eps, the call's draw) alone; and
\* in a pass over s observations every one of the 2^s retain/flip patterns
\* is a possible outcome, with exactly s draws taken.
C6_EveryPatternPossible ==
    /\ (/\ last.fn = "randomized_response"
        /\ last.value \in {0, 1}
        /\ EpsPositive(last.epsilon))
       => (/\ last.ret \in {last.value, 1 - last.value}
           /\ last.ret \in {0, 1})
    /\ (/\ last.fn = "analyze_data"
        /\ EpsPositive(last.epsilon))
       => (/\ last.draws = last.total
           /\ \A pattern \in [1..last.total -> {0, 1}] :
                 \E us \in [1..last.total -> Draws] :
                    apply_randomized_response(last.data.HvyAlcoholConsump,
                                              last.epsilon, us) = pattern)

\* C7: for every finite eps > 0 the retention probability computed by the
\* mechanism and by the estimator lies strictly between 1/2 and 1.
C7_RetentionStrictlyBetween ==
    (last.fn \in {"randomized_response", "analyze_data"}
     /\ EpsPositive(last.epsilon))
    => (/\ FLt(Half, rr_p(last.epsilon))
        /\ FLt(rr_p(last.epsilon), One)
        /\ FLt(Half, ad_p(last.epsilon))
        /\ FLt(ad_p(last.epsilon), One))

\* C8: the estimate of every trial is the value of the formula, unclamped
\* (estimate * (2p - 1) is c - n*(1 - p) up to n * 2^-49, the rounding):
\* below 0 when the noised count is below n*(1 - p), above n when it is
\* above n*p; and the mean of a summary is the mean of these values (ten
\* times the mean is their sum, up to the rounding of the float64 sum:
\* n * 2^-44).
C8_EstimatesNeverClamped ==
    ListsHeld =>
        LET p == ad_p(EpsOne)
            n == ListsSize
            d == TwoPMinusOne(p)
            lo == XMul(FromInt(n), XSub(One, p))
            hi == XMul(FromInt(n), p)
            tol == Dy(n, -49)
        IN  /\ \A i \in 1..Len(denoised_counts) :
                  /\ IsFin(denoised_counts[i])
                  /\ Within(XMul(denoised_counts[i], d),
                            XSub(FromInt(noised_counts[i]), lo), tol)
                  /\ XLt(FromInt(noised_counts[i]), lo)
                       => FLt(denoised_counts[i], FromInt(0))
                  /\ XLt(hi, FromInt(noised_counts[i]))
                       => FLt(FromInt(n), denoised_counts[i])
            /\ pc # "for_trial"
                 => Within(XMul(results[Len(results)].mean_denoised_count,
                                FromInt(TrialsPerSize)),
                           XTotal(denoised_counts, Len(denoised_counts)),
                           Dy(n, -44))

\* C8 happens: the run ended with a summary over trials with estimates
\* below 0 and trials with estimates above the size.
C8_Witness ==
    /\ pc = "done"
    /\ results # << >>
    /\ \E i \in 1..Len(denoised_counts) : FLt(denoised_counts[i], FromInt(0))
    /\ \E i \in 1..Len(denoised_counts) :
          FLt(FromInt(ListsSize), denoised_counts[i])

\* C9: every trial of a size s works on the first s observations of the
\* file; the frame read from the file never changes; the true count is the
\* same in every trial of a size, and the mean true count of a summary is
\* the number of ones among the first s observations.
C9_TrialsReadThePrefix ==
    /\ data = Frame(features_csv)
    /\ (pc = "for_trial" /\ trial >= 1)
         => /\ subset_data.HvyAlcoholConsump = SubSeq(features_csv, 1, size)
            /\ Len(subset_data.HvyAlcoholConsump_noised) = size
    /\ pc = "for_trial"
         => LET ones == PrefixOnes(size)
            IN  \A i \in 1..Len(original_counts) : original_counts[i] = ones
    /\ \A j \in 1..Len(results) :
          results[j].mean_original_count = FromInt(PrefixOnes(results[j].size))

\* C9 happens: the run ended with a summary of a size smaller than the
\* file, whose prefix holds fewer ones than the file, after a trial that
\* flipped an observation of its copy.
C9_Witness ==
    /\ pc = "done"
    /\ \E j \in 1..Len(results) :
          /\ results[j].size < Len(features_csv)
          /\ PrefixOnes(results[j].size) < PrefixOnes(Len(features_csv))
    /\ subset_data.HvyAlcoholConsump_noised # subset_data.HvyAlcoholConsump

\* C10: a summary is computed after the TrialsPerSize trials of its size,
\* from the counts of these trials alone: the three lists are empty when a
\* size starts and grow by one per trial; the means of the summary are the
\* sums of the lists over TrialsPerSize (up to the rounding of float64);
\* its relative error is |mean estimate - mean true count| / size (up to
\* that rounding), which is not negative; and results holds one summary per
\* size that went through its trials.
C10_SummaryOfTenTrials ==
    /\ pc = "for_trial"
         => /\ Len(original_counts) = trial
            /\ Len(noised_counts) = trial
            /\ Len(denoised_counts) = trial
            /\ trial <= TrialsPerSize
    /\ Len(results) = Cardinality({i \in 1..(idx - 1) : Fits(input_sizes[i])})
    /\ (pc # "for_trial" /\ results # << >>)
         => LET r == results[Len(results)]
                ten == FromInt(TrialsPerSize)
                true_total == IntTotal(original_counts, TrialsPerSize)
                noised_total == IntTotal(noised_counts, TrialsPerSize)
            IN  /\ Len(original_counts) = TrialsPerSize
                /\ Len(noised_counts) = TrialsPerSize
                /\ Len(denoised_counts) = TrialsPerSize
                /\ Within(XMul(r.mean_original_count, ten), FromInt(true_total),
                          Dy(true_total, -52))
                /\ Within(XMul(r.mean_noised_count, ten), FromInt(noised_total),
                          Dy(noised_total, -52))
                /\ Within(XMul(r.mean_denoised_count, ten),
                          XTotal(denoised_counts, TrialsPerSize),
                          Dy(r.size, -44))
                /\ Within(XMul(r.relative_error, FromInt(r.size)),
                          FAbs(XSub(r.mean_denoised_count, r.mean_original_count)),
                          Dy(r.size, -49))
                /\ ~FLt(r.relative_error, FromInt(0))

\* C10 happens: the run ended with two summaries of different sizes, the
\* last one over trials of differing noised counts, both with a positive
\* relative error.
C10_Witness ==
    /\ pc = "done"
    /\ Len(results) = 2
    /\ results[1].size # results[2].size
    /\ \E i, j \in 1..Len(noised_counts) : noised_counts[i] # noised_counts[j]
    /\ FLt(FromInt(0), results[2].relative_error)
    /\ FLt(FromInt(0), results[1].relative_error)

====
